---- MODULE Spec2Model ----
(***************************************************************************)
(* Verification model of the stream monitor bot (src/index.js): the        *)
(* polling scheduler (startMonitoring / checkAllStreams), the live-status  *)
(* map, the track / remove command handlers and the platform checkers.     *)
(*                                                                         *)
(* The program is single-threaded JavaScript: code between two awaits runs *)
(* atomically, so every action below is one such run, from the completion  *)
(* of an awaited operation (a network call, a timer) to the next await.    *)
(***************************************************************************)
EXTENDS Integers, Sequences, FiniteSets, TLC

\* ------------------------------------------------------------------ bounds

\* checkAllStreams invocations that may be in flight at the same time
MaxCycles == 2
\* entries the tracked list may hold
MaxUsers == 2
\* the clock stops advancing here (milliseconds)
MaxTime == 7000
\* one advance of the clock (milliseconds)
TimeStep == 1000
\* the ghost notification counter saturates here
MaxCount == 2
\* handleTrackCommand invocations that may be in flight at the same time
MaxTracks == 2

\* ------------------------------------------------------- program constants

kickRequestDelay == 3000

\* ---------------------------------------------------------------- strings

\* Strings are sequences of one-character strings, so that prefix tests and
\* concatenation are computed and not assumed.
startsWith(s, prefix) ==
    /\ Len(s) >= Len(prefix)
    /\ SubSeq(s, 1, Len(prefix)) = prefix

UC == <<"U", "C">>

\* `${platform}:${username}`
KeyOf(platform, username) == <<platform, ":">> \o username

\* ------------------------------------------------------------------ state

VARIABLES
    CONFIG,           \* which optional credentials the environment sets
    monitoredUsers,   \* Map key -> user, as the sequence of its entries in insertion order
    liveStatus,       \* Map key -> boolean, as a function on the keys it holds
    twitchToken,      \* "null" or the cached bearer token
    checkInterval,    \* "null" before startMonitoring, then the Timeout object
                      \* of setInterval: "timer" while it is armed, "cleared" after
                      \* clearInterval
    process,          \* "running", or "exited" after process.exit
    lastKickRequest,  \* Date.now() of the last pass through the Kick pacing gate
    now,              \* Date.now()
    cycle,            \* the checkAllStreams invocations in flight, by slot
    track,            \* the handleTrackCommand invocation in flight
    lastEval,         \* history: the last comparison made by the loop body
    lastObs,          \* history: key -> value last returned by its checker
    edgeSent,         \* history: key -> notifications handed over since its last offline->live edge
    kickDone,         \* history: what the last completed checkKickLive call did
    kickDispatch,     \* history: dispatch times of the last two outbound Kick requests
    kickRecorded,     \* history: the last two values stored in lastKickRequest
    ytDone,           \* history: what the last completed checkYouTubeLive call did
    pollResolves,     \* history: the keys a check cycle has requested a channel resolution for
    tiktokDone,       \* history: what the last completed checkTikTokLive call did
    twitchDone,       \* history: what the last completed checkTwitchLive call did
    sched,            \* history: the timers armed and how the check cycles began
    notice            \* sendLiveNotification called on its own: its argument and
                      \* the embed it built

progVars == <<CONFIG, monitoredUsers, liveStatus, twitchToken, checkInterval,
              process, lastKickRequest, now, cycle, track>>
histVars == <<lastEval, lastObs, edgeSent, kickDone, kickDispatch, kickRecorded,
              ytDone, pollResolves, tiktokDone, twitchDone, sched, notice>>
vars == <<progVars, histVars>>

Slots == 1..MaxCycles

TrackSlots == 1..MaxTracks

\* --------------------------------------------------------------- Map helpers

EmptyMap == [k \in {} |-> FALSE]

MapHas(m, k) == k \in DOMAIN m

MapSet(m, k, v) == [x \in (DOMAIN m) \cup {k} |-> IF x = k THEN v ELSE m[x]]

MapDelete(m, k) == [x \in (DOMAIN m) \ {k} |-> m[x]]

\* monitoredUsers.has(key)
Tracked(key) == \E i \in 1..Len(monitoredUsers) : monitoredUsers[i].key = key

IndexOfKey(key) == CHOOSE i \in 1..Len(monitoredUsers) : monitoredUsers[i].key = key

RemoveAt(s, i) == SubSeq(s, 1, i - 1) \o SubSeq(s, i + 1, Len(s))

\* ------------------------------------------------------------------ users

User(platform, username) ==
    [platform |-> platform, username |-> username, displayName |-> username,
     resolvedId |-> <<>>]

Entry(user) == [key |-> KeyOf(user.platform, user.username), user |-> user]

NoEntry == [key |-> <<>>, user |-> User("none", <<>>)]

\* generateYouTubeUrl
generateYouTubeUrl(channelInput) ==
    IF startsWith(channelInput, UC)
    THEN <<"https://youtube.com/channel/">> \o channelInput \o <<"/live">>
    ELSE <<"https://youtube.com/@">> \o channelInput \o <<"/live">>

\* generateLiveUrl without the default
generateLiveUrlNoDefault(platform, username) ==
    CASE platform = "youtube" -> generateYouTubeUrl(username)
      [] platform = "twitch" -> <<"https://twitch.tv/">> \o username
      [] platform = "tiktok" -> <<"https://tiktok.com/@">> \o username \o <<"/live">>
      [] platform = "kick" -> <<"https://kick.com/">> \o username
      [] OTHER -> <<"undefined">>

\* generateLiveUrl: urls[platform] || '#'
generateLiveUrl(platform, username) ==
    CASE platform = "youtube" -> generateYouTubeUrl(username)
      [] platform = "twitch" -> <<"https://twitch.tv/">> \o username
      [] platform = "tiktok" -> <<"https://tiktok.com/@">> \o username \o <<"/live">>
      [] platform = "kick" -> <<"https://kick.com/">> \o username
      [] OTHER -> <<"#">>

\* platform.charAt(0).toUpperCase() + platform.slice(1), on the platform
\* names of the model
Capitalized(platform) ==
    CASE platform = "youtube" -> "Youtube"
      [] platform = "twitch" -> "Twitch"
      [] platform = "tiktok" -> "Tiktok"
      [] platform = "kick" -> "Kick"
      [] platform = "other" -> "Other"
      [] OTHER -> platform

\* The embed sendLiveNotification builds for a user (colour and timestamp
\* left out)
Embed(user) ==
    [title |-> <<"(red circle) ">> \o user.displayName \o <<" is now LIVE!">>,
     description |-> user.displayName \o <<" just went live on ",
                                           Capitalized(user.platform)>>,
     url |-> generateLiveUrl(user.platform, user.username),
     platform |-> Capitalized(user.platform)]

NoEmbed == [title |-> <<>>, description |-> <<>>, url |-> <<>>, platform |-> ""]

NoNotice == [user |-> User("none", <<>>), embed |-> NoEmbed]

\* A checkAllStreams invocation: its place in the loop and the locals of the
\* checker call it is suspended in.
\*   pos      entries of the Map iterator already consumed
\*   entry    the [key, user] pair of the current iteration
\*   wake     checkKickLive: when the pacing timer is due
\*   api      checkKickLive: the outcome of the channel-info request (NoResp before it ends)
\*   scrapes  checkKickLive: calls of tryKickWebScraping
\*   resolves checkYouTubeLive: calls of resolveYouTubeChannel
\*   resolved checkYouTubeLive: "none", "pending", "id" or "null"
\*   searches checkYouTubeLive: live-event search requests issued
\*   slot     checkTwitchLive: this.twitchToken as the call found it
\*   grant    checkTwitchLive: "none", "pending", "ok" or "failed" (getTwitchToken)
\*   bearer   checkTwitchLive: the token sent with the streams lookup ("" before it)
\* and, as history of the invocation,
\*   seen     tracked key -> checker calls it has made for the key since the
\*            key was stored
NoResp == [status |-> -1, code |-> "", livestream |-> "null"]

IdleCycle ==
    [pc |-> "idle", pos |-> 0, entry |-> NoEntry, wake |-> 0, api |-> NoResp,
     scrapes |-> 0, resolves |-> 0, resolved |-> "none", searches |-> 0,
     slot |-> "null", grant |-> "none", bearer |-> "",
     seen |-> [k \in {} |-> 0]]

NoTrack == [pc |-> "idle", user |-> User("none", <<>>)]

\* The last two values of a history of times (-1: none yet)
NoTimes == [prev |-> -1, last |-> -1]

Push(h, t) == [prev |-> h.last, last |-> t]

Min(a, b) == IF a < b THEN a ELSE b

\* -------------------------------------------------------------- responses

\* What axios hands back: a response with a status, or an error without one
\* (status 0) that carries a code. axios rejects every status outside 2xx.
Rejected(resp) == resp.status = 0 \/ ~(resp.status >= 200 /\ resp.status < 300)

\* indicators.some(indicator => indicator)
Some(indicators) == \E i \in 1..Len(indicators) : indicators[i]

AllFalse(n) == [i \in 1..n |-> FALSE]

OneTrue(n, j) == [i \in 1..n |-> i = j]

\* haystack.includes(needle)
includes(haystack, needle) ==
    \E i \in 0..(Len(haystack) - Len(needle)) :
        SubSeq(haystack, i + 1, i + Len(needle)) = needle

\* ------------------------------------------------- checkers: the pure parts

\* A checker's outcome as checkStreamStatus sees it: a boolean, or an exception.
Returns(v) == [threw |-> FALSE, value |-> v]

Throws == [threw |-> TRUE, value |-> FALSE]

LivePath == <<"/", "l", "i", "v", "e">>

\* `https://www.tiktok.com/@${username}/live`
TikTokLiveUrl(username) == <<"https://www.tiktok.com", "/", "@">> \o username \o LivePath

\* the profile page TikTok redirects to when there is no live room
TikTokProfileUrl(username) == <<"https://www.tiktok.com", "/", "@">> \o username

\* checkTikTokLive with a catch block that passes a 403 on to the caller
checkTikTokLiveRethrows403(resp) ==
    IF Rejected(resp)
    THEN IF resp.status = 403 THEN Throws ELSE Returns(FALSE)
    ELSE IF resp.responseUrl # <<>> /\ ~includes(resp.responseUrl, LivePath)
         THEN Returns(FALSE)
         ELSE Returns(Some(resp.indicators))

\* checkTikTokLive without the test of the final URL
checkTikTokLiveIgnoresRedirect(resp) ==
    IF Rejected(resp) THEN Returns(FALSE) ELSE Returns(Some(resp.indicators))

\* checkTikTokLive from the fetch's outcome on. resp.responseUrl is <<>> when
\* the request object carries none.
checkTikTokLive(resp) ==
    IF Rejected(resp)
    THEN Returns(FALSE)
    ELSE IF resp.responseUrl # <<>> /\ ~includes(resp.responseUrl, LivePath)
         THEN Returns(FALSE)
         ELSE Returns(Some(resp.indicators))

\* The diagnostic the catch block of checkTikTokLive logs
tiktokDiagnostic(resp) ==
    IF resp.status = 404 THEN "not found (404)"
    ELSE IF resp.status = 403 THEN "blocked (403)"
    ELSE IF resp.code = "ECONNABORTED" THEN "timeout"
    ELSE "API error"

\* tryKickAPI from the response on: "true" / "false" (livestream !== null),
\* "null" on a 403, an exception on every other failure.
tryKickAPI(resp) ==
    IF Rejected(resp)
    THEN IF resp.status = 403 THEN Returns("null") ELSE Throws
    ELSE Returns(IF resp.livestream # "null" THEN "true" ELSE "false")

\* if (response): null and false are falsy
Truthy(v) == v = "true"

\* tryKickWebScraping from the page fetch's outcome on
tryKickWebScraping(resp) ==
    IF Rejected(resp) THEN FALSE ELSE Some(resp.indicators)

\* resolveYouTubeChannel after the search request: "id" (found), "next" (go on
\* to the channels endpoint) or "null" (the request failed: caught, null).
resolveAfterSearch(r) ==
    IF r = "error" THEN "null" ELSE IF r = "items" THEN "id" ELSE "next"

\* resolveYouTubeChannel after the channels (forUsername) request
resolveAfterChannels(r) ==
    IF r = "error" THEN "null" ELSE IF r = "items" THEN "id" ELSE "null"

\* checkYouTubeLive after the live-event search: items.length > 0, false on error
youTubeLiveResult(r) == r = "items"

\* The channel ID the API resolves a handle to
ResolvedIdOf(username) == UC \o username

\* getTwitchToken that stores what a failed grant answered
getTwitchTokenStoresFailure(resp) ==
    IF Rejected(resp) THEN "error" ELSE resp.access_token

\* getTwitchToken from the grant's outcome on: the value this.twitchToken
\* holds afterwards. A failed grant is caught and logged: nothing is stored.
getTwitchToken(resp) ==
    IF Rejected(resp) THEN twitchToken ELSE resp.access_token

\* checkTwitchLive from the outcome of the streams lookup on
checkTwitchLive(resp) ==
    IF Rejected(resp) THEN Returns(FALSE) ELSE Returns(resp.data > 0)

\* ---------------------------------------------------- checkers: first halves
\* Each Begin operator is the synchronous start of a checker call made by
\* invocation c for the entry held in rec: up to the first await.

\* checkKickLive, past the pacing gate: records the pass and calls tryKickAPI,
\* which sends the channel-info request at once.
PassKickGate(c, rec) ==
    /\ lastKickRequest' = now
    /\ kickRecorded' = Push(kickRecorded, now)
    /\ kickDispatch' = Push(kickDispatch, now)
    /\ cycle' = [cycle EXCEPT ![c] = [rec EXCEPT !.pc = "kickApi"]]

\* checkKickLive up to its first await: the pacing timer, or the API request
checkKickLiveBegin(c, rec) ==
    LET timeSinceLastRequest == now - lastKickRequest
    IN IF timeSinceLastRequest < kickRequestDelay
       THEN /\ cycle' = [cycle EXCEPT ![c] =
                   [rec EXCEPT !.pc = "kickWait",
                               !.wake = now + (kickRequestDelay - timeSinceLastRequest)]]
            /\ UNCHANGED <<lastKickRequest, kickRecorded, kickDispatch>>
       ELSE PassKickGate(c, rec)

\* checkTikTokLive up to its await: the live page is requested
checkTikTokLiveBegin(c, rec) ==
    cycle' = [cycle EXCEPT ![c] = [rec EXCEPT !.pc = "tiktokFetch"]]

\* checkYouTubeLiveBegin without the prefix test: every input is resolved
checkYouTubeLiveBeginAlwaysResolves(c, rec) ==
    IF ~CONFIG.YOUTUBE_API_KEY
    THEN /\ cycle' = [cycle EXCEPT ![c] = [rec EXCEPT !.pc = "returnedFalse"]]
         /\ UNCHANGED pollResolves
    ELSE /\ cycle' = [cycle EXCEPT ![c] =
                [rec EXCEPT !.pc = "ytResolveSearch", !.resolves = 1,
                            !.resolved = "pending"]]
         /\ pollResolves' = pollResolves \cup {rec.entry.key}

\* checkYouTubeLive up to its first await: nothing without an API key, the
\* channel search of resolveYouTubeChannel for an input without the UC prefix,
\* the live-event search otherwise.
checkYouTubeLiveBegin(c, rec) ==
    IF ~CONFIG.YOUTUBE_API_KEY
    THEN /\ cycle' = [cycle EXCEPT ![c] = [rec EXCEPT !.pc = "returnedFalse"]]
         /\ UNCHANGED pollResolves
    ELSE IF ~startsWith(rec.entry.user.username, UC)
         THEN /\ cycle' = [cycle EXCEPT ![c] =
                     [rec EXCEPT !.pc = "ytResolveSearch", !.resolves = 1,
                                 !.resolved = "pending"]]
              /\ pollResolves' = pollResolves \cup {rec.entry.key}
         ELSE /\ cycle' = [cycle EXCEPT ![c] =
                     [rec EXCEPT !.pc = "ytLive", !.searches = 1]]
              /\ UNCHANGED pollResolves

\* checkTwitchLiveBegin without the test of the token slot
checkTwitchLiveBeginAlwaysGrants(c, rec) ==
    cycle' = [cycle EXCEPT ![c] =
                 [rec EXCEPT !.pc = "twitchGrant", !.slot = twitchToken,
                             !.grant = "pending"]]

\* checkTwitchLive up to its first await: the grant when the token slot is
\* empty, the streams lookup with the cached token otherwise
checkTwitchLiveBegin(c, rec) ==
    IF twitchToken = "null"
    THEN cycle' = [cycle EXCEPT ![c] =
                      [rec EXCEPT !.pc = "twitchGrant", !.slot = twitchToken,
                                  !.grant = "pending"]]
    ELSE cycle' = [cycle EXCEPT ![c] =
                      [rec EXCEPT !.pc = "twitchStreams", !.slot = twitchToken,
                                  !.bearer = twitchToken]]

\* checkStreamStatus: the switch on the platform
checkStreamStatus(c, rec) ==
    CASE rec.entry.user.platform = "youtube" ->
            /\ checkYouTubeLiveBegin(c, rec)
            /\ UNCHANGED <<lastKickRequest, kickRecorded, kickDispatch>>
      [] rec.entry.user.platform = "twitch" ->
            /\ checkTwitchLiveBegin(c, rec)
            /\ UNCHANGED <<lastKickRequest, kickRecorded, kickDispatch, pollResolves>>
      [] rec.entry.user.platform = "tiktok" ->
            /\ checkTikTokLiveBegin(c, rec)
            /\ UNCHANGED <<lastKickRequest, kickRecorded, kickDispatch, pollResolves>>
      [] rec.entry.user.platform = "kick" ->
            /\ checkKickLiveBegin(c, rec)
            /\ UNCHANGED pollResolves
      [] OTHER ->
            /\ cycle' = [cycle EXCEPT ![c] = [rec EXCEPT !.pc = "returnedFalse"]]
            /\ UNCHANGED <<lastKickRequest, kickRecorded, kickDispatch, pollResolves>>

\* ------------------------------------------------------------ the loop body

\* One more call counted for key k, if the count is kept for it
Bump(m, k) == IF MapHas(m, k) THEN MapSet(m, k, Min(MaxCount, m[k] + 1)) ELSE m

\* The calls counted for invocation c as an iteration finds them: those of
\* the invocation in flight, or none yet for a call of checkAllStreams that is
\* only now made.
SeenBy(c) ==
    IF cycle[c].pc = "idle"
    THEN [k \in {monitoredUsers[i].key : i \in 1..Len(monitoredUsers)} |-> 0]
    ELSE cycle[c].seen

\* The head of the for-of loop of checkAllStreams for invocation c whose
\* iterator has consumed p entries: the next entry's check begins, or the
\* invocation ends. A Map iterator is live: it sees the entries as they are now.
LoopHead(c, p) ==
    IF p < Len(monitoredUsers)
    THEN checkStreamStatus(c, [IdleCycle EXCEPT
                                  !.pos = p + 1,
                                  !.entry = monitoredUsers[p + 1],
                                  !.seen = Bump(SeenBy(c), monitoredUsers[p + 1].key)])
    ELSE /\ cycle' = [cycle EXCEPT ![c] = IdleCycle]
         /\ UNCHANGED <<lastKickRequest, kickRecorded, kickDispatch, pollResolves>>

\* sendLiveNotification up to its await: the embed is built and posted
sendLiveNotification(c) ==
    cycle' = [cycle EXCEPT ![c].pc = "notify"]

\* The history of the last comparison once the post begun for its key ended
\* ("ok" or "error")
PostEnded(key, resp) ==
    IF lastEval.key = key /\ lastEval.handed
    THEN [lastEval EXCEPT !.failed = (resp = "error")]
    ELSE lastEval

\* History of one comparison: what was recorded before it, what was observed,
\* whether the notification was handed over, what is recorded after it,
\* whether liveStatus changed at all and whether the post it began has failed;
\* the count per edge.
RecordEval(key, isLive, handed) ==
    LET edge == isLive /\ (~MapHas(lastObs, key) \/ ~lastObs[key])
        before == IF edge \/ ~MapHas(edgeSent, key) THEN 0 ELSE edgeSent[key]
    IN /\ lastEval' = [key |-> key,
                       prior |-> IF MapHas(liveStatus, key)
                                 THEN (IF liveStatus[key] THEN "true" ELSE "false")
                                 ELSE "absent",
                       observed |-> isLive,
                       handed |-> handed,
                       after |-> IF MapHas(liveStatus', key)
                                 THEN (IF liveStatus'[key] THEN "true" ELSE "false")
                                 ELSE "absent",
                       changed |-> liveStatus' # liveStatus,
                       failed |-> FALSE]
       /\ lastObs' = MapSet(lastObs, key, isLive)
       /\ edgeSent' = MapSet(edgeSent, key,
                             IF handed THEN Min(MaxCount, before + 1) ELSE before)

\* Evaluate without the comparison against the recorded state: every live
\* observation is notified.
EvaluateLevelTriggered(c, isLive) ==
    LET key == cycle[c].entry.key
    IN IF isLive
       THEN /\ sendLiveNotification(c)
            /\ UNCHANGED <<liveStatus, lastKickRequest, kickRecorded, kickDispatch,
                           pollResolves>>
            /\ RecordEval(key, isLive, cycle'[c].pc = "notify")
       ELSE /\ liveStatus' = IF MapHas(liveStatus, key)
                             THEN MapSet(liveStatus, key, FALSE)
                             ELSE liveStatus
            /\ LoopHead(c, cycle[c].pos)
            /\ RecordEval(key, isLive, FALSE)

\* Evaluate with the first observation of a key only recorded: a key that
\* has no entry gets one and no notification
EvaluateRecordsFirst(c, isLive) ==
    LET key == cycle[c].entry.key
        wasLive == IF MapHas(liveStatus, key) THEN liveStatus[key] ELSE FALSE
    IN IF MapHas(liveStatus, key) /\ isLive /\ ~wasLive
       THEN /\ sendLiveNotification(c)
            /\ UNCHANGED <<liveStatus, lastKickRequest, kickRecorded, kickDispatch,
                           pollResolves>>
            /\ RecordEval(key, isLive, cycle'[c].pc = "notify")
       ELSE /\ liveStatus' = IF ~MapHas(liveStatus, key) \/ (~isLive /\ wasLive)
                             THEN MapSet(liveStatus, key, isLive)
                             ELSE liveStatus
            /\ LoopHead(c, cycle[c].pos)
            /\ RecordEval(key, isLive, FALSE)

\* Evaluate with the notification posted and not awaited: the key is recorded
\* and the loop goes on while the post is pending
EvaluateFireAndForget(c, isLive) ==
    LET key == cycle[c].entry.key
        wasLive == IF MapHas(liveStatus, key) THEN liveStatus[key] ELSE FALSE
    IN IF isLive /\ ~wasLive
       THEN /\ liveStatus' = MapSet(liveStatus, key, TRUE)
            /\ LoopHead(c, cycle[c].pos)
            /\ RecordEval(key, isLive, TRUE)
       ELSE /\ liveStatus' = IF ~isLive /\ wasLive
                             THEN MapSet(liveStatus, key, FALSE)
                             ELSE liveStatus
            /\ LoopHead(c, cycle[c].pos)
            /\ RecordEval(key, isLive, FALSE)

\* Evaluate with every observation that is not an edge written to liveStatus
EvaluateAlwaysRecords(c, isLive) ==
    LET key == cycle[c].entry.key
        wasLive == IF MapHas(liveStatus, key) THEN liveStatus[key] ELSE FALSE
    IN IF isLive /\ ~wasLive
       THEN /\ sendLiveNotification(c)
            /\ UNCHANGED <<liveStatus, lastKickRequest, kickRecorded, kickDispatch,
                           pollResolves>>
            /\ RecordEval(key, isLive, cycle'[c].pc = "notify")
       ELSE /\ liveStatus' = MapSet(liveStatus, key, isLive)
            /\ LoopHead(c, cycle[c].pos)
            /\ RecordEval(key, isLive, FALSE)

\* Evaluate without the else-if branch: the end of a broadcast is not recorded
EvaluateNeverOffline(c, isLive) ==
    LET key == cycle[c].entry.key
        wasLive == IF MapHas(liveStatus, key) THEN liveStatus[key] ELSE FALSE
    IN IF isLive /\ ~wasLive
       THEN /\ sendLiveNotification(c)
            /\ UNCHANGED <<liveStatus, lastKickRequest, kickRecorded, kickDispatch,
                           pollResolves>>
            /\ RecordEval(key, isLive, cycle'[c].pc = "notify")
       ELSE /\ liveStatus' = liveStatus
            /\ LoopHead(c, cycle[c].pos)
            /\ RecordEval(key, isLive, FALSE)

\* The loop body of checkAllStreams from the checker's return on
Evaluate(c, isLive) ==
    LET key == cycle[c].entry.key
        wasLive == IF MapHas(liveStatus, key) THEN liveStatus[key] ELSE FALSE
    IN IF isLive /\ ~wasLive
       THEN /\ sendLiveNotification(c)
            /\ UNCHANGED <<liveStatus, lastKickRequest, kickRecorded, kickDispatch,
                           pollResolves>>
            /\ RecordEval(key, isLive, cycle'[c].pc = "notify")
       ELSE /\ liveStatus' = IF ~isLive /\ wasLive
                             THEN MapSet(liveStatus, key, FALSE)
                             ELSE liveStatus
            /\ LoopHead(c, cycle[c].pos)
            /\ RecordEval(key, isLive, FALSE)

\* The loop body from the end of the awaited checker call on: the comparison,
\* or the catch block when the call threw.
Finish(c, result) ==
    IF result.threw
    THEN /\ LoopHead(c, cycle[c].pos)
         /\ UNCHANGED <<liveStatus, lastEval, lastObs, edgeSent>>
    ELSE Evaluate(c, result.value)

\* what Finish leaves alone
finishFrame == <<CONFIG, monitoredUsers, twitchToken, checkInterval, process, now, track,
                 sched, notice>>

\* ------------------------------------------------------------------ inputs

\* Outcomes of the TikTok live-page fetch for a username: a page (with the
\* twelve indicators and the URL the redirects ended at), or a failure.
TikTokIndicators == 12

\* no fetch has ended yet
NoPage ==
    [status |-> -1, code |-> "", indicators |-> AllFalse(TikTokIndicators),
     responseUrl |-> <<>>]

TikTokPages(username) ==
    { [status |-> 200, code |-> "", indicators |-> ind, responseUrl |-> url] :
        ind \in {AllFalse(TikTokIndicators), OneTrue(TikTokIndicators, TikTokIndicators)},
        url \in {TikTokLiveUrl(username), TikTokProfileUrl(username), <<>>} }
    \cup
    { [status |-> 206, code |-> "", indicators |-> OneTrue(TikTokIndicators, 1),
       responseUrl |-> TikTokLiveUrl(username)] }

TikTokFailures(username) ==
    { [status |-> s, code |-> "ERR_BAD_RESPONSE",
       indicators |-> OneTrue(TikTokIndicators, 1), responseUrl |-> TikTokLiveUrl(username)] :
        s \in {403, 404, 500} }
    \cup
    { [status |-> 0, code |-> cd,
       indicators |-> AllFalse(TikTokIndicators), responseUrl |-> <<>>] :
        cd \in {"ECONNABORTED", "ENOTFOUND"} }

TikTokResponses(username) == TikTokPages(username) \cup TikTokFailures(username)

\* Three of them, one per answer the scheduler can tell apart: a live room,
\* a redirect to the profile, a blocked request
TikTokAnswers(username) ==
    { [status |-> 200, code |-> "", indicators |-> OneTrue(TikTokIndicators, 1),
       responseUrl |-> TikTokLiveUrl(username)],
      [status |-> 200, code |-> "", indicators |-> OneTrue(TikTokIndicators, 1),
       responseUrl |-> TikTokProfileUrl(username)],
      [status |-> 403, code |-> "ERR_BAD_RESPONSE",
       indicators |-> AllFalse(TikTokIndicators), responseUrl |-> <<>>] }

\* Outcomes of the Kick channel-info request
KickApiResponses ==
    { [status |-> 200, code |-> "", livestream |-> l] : l \in {"object", "null"} }
    \cup
    { [status |-> s, code |-> "ERR_BAD_RESPONSE", livestream |-> "null"] :
        s \in {403, 404, 500} }
    \cup
    { [status |-> 0, code |-> "ECONNABORTED", livestream |-> "null"] }

\* Outcomes of the Kick channel-page fetch, with its ten indicators
KickIndicators == 10

KickPageResponses ==
    { [status |-> 200, code |-> "", indicators |-> ind] :
        ind \in {AllFalse(KickIndicators), OneTrue(KickIndicators, 1),
                 OneTrue(KickIndicators, KickIndicators)} }
    \cup
    { [status |-> 403, code |-> "ERR_BAD_RESPONSE",
       indicators |-> OneTrue(KickIndicators, 1)],
      [status |-> 0, code |-> "ECONNABORTED", indicators |-> AllFalse(KickIndicators)] }

\* Outcomes of a YouTube Data API list request: items, no items, or an error
YouTubeResponses == {"items", "empty", "error"}

\* Outcomes of the client-credentials grant: a token, or a failure
TwitchGrantResponses ==
    { [status |-> 200, code |-> "", access_token |-> "token"],
      [status |-> 400, code |-> "ERR_BAD_REQUEST", access_token |-> "null"],
      [status |-> 0, code |-> "ECONNABORTED", access_token |-> "null"] }

\* Outcomes of the streams lookup: a list of streams, or a failure (401 is
\* the answer to a token the platform does not accept)
TwitchStreamsResponses ==
    { [status |-> 200, code |-> "", data |-> n] : n \in {0, 1} }
    \cup
    { [status |-> 401, code |-> "ERR_BAD_REQUEST", data |-> 0],
      [status |-> 0, code |-> "ECONNABORTED", data |-> 0] }

\* Outcomes of the webhook post
WebhookResponses == {"ok", "error"}

\* ----------------------------------------------------------------- actions

LowestIdle(c) ==
    /\ cycle[c].pc = "idle"
    /\ \A d \in Slots : d < c => cycle[d].pc # "idle"

checkFrame == <<kickDone, ytDone, tiktokDone, twitchDone>>

\* startMonitoring that only arms the timer
StartMonitoringTimerOnly ==
    /\ process = "running"
    /\ checkInterval = "null"
    /\ checkInterval' = "timer"
    /\ sched' = [sched EXCEPT !.timers = Min(MaxCount, @ + 1)]
    /\ UNCHANGED <<CONFIG, monitoredUsers, liveStatus, twitchToken, process, now, track,
                   lastEval, lastObs, edgeSent, checkFrame, cycle, lastKickRequest,
                   kickRecorded, kickDispatch, pollResolves, notice>>

\* startMonitoring, on the client's ready event: the first checkAllStreams
\* call runs to its first await, then the interval timer is armed.
StartMonitoring ==
    /\ process = "running"
    /\ checkInterval = "null"
    /\ LoopHead(1, 0)
    /\ checkInterval' = "timer"
    /\ sched' = [timers |-> Min(MaxCount, sched.timers + 1),
                 first |-> IF sched.first = "none" THEN "start" ELSE sched.first,
                 again |-> sched.again \/ sched.first # "none"]
    /\ UNCHANGED <<CONFIG, monitoredUsers, liveStatus, twitchToken, process, now, track,
                   lastEval, lastObs, edgeSent, checkFrame, notice>>

\* The interval timer fires: another checkAllStreams call begins, whether or
\* not an earlier one has finished. (The period is not measured against the
\* clock: a cycle's duration has no bound that the period respects.)
TimerTick(c) ==
    /\ process = "running"
    /\ checkInterval = "timer"
    /\ LowestIdle(c)
    /\ LoopHead(c, 0)
    /\ sched' = [sched EXCEPT !.first = IF @ = "none" THEN "tick" ELSE @]
    /\ UNCHANGED <<CONFIG, monitoredUsers, liveStatus, twitchToken, checkInterval,
                   process, now, track, lastEval, lastObs, edgeSent, checkFrame,
                   notice>>

\* A checker that returned false without awaiting anything (no API key, or a
\* platform outside the switch): the loop body resumes.
ReturnedFalse(c) ==
    /\ process = "running"
    /\ cycle[c].pc = "returnedFalse"
    /\ Finish(c, Returns(FALSE))
    /\ UNCHANGED <<finishFrame, checkFrame>>

\* The TikTok page fetch ends: checkTikTokLive returns and the loop body resumes
TikTokFetchDone(c, resp) ==
    /\ process = "running"
    /\ cycle[c].pc = "tiktokFetch"
    /\ LET result == checkTikTokLive(resp)
       IN /\ tiktokDone' = [resp |-> resp,
                            rejected |-> Rejected(resp),
                            diagnostic |-> IF Rejected(resp) THEN tiktokDiagnostic(resp)
                                           ELSE "",
                            threw |-> result.threw,
                            value |-> result.value]
          /\ Finish(c, result)
    /\ UNCHANGED <<finishFrame, kickDone, ytDone, twitchDone>>

\* NotifyDone with the failure of the post left uncaught: the exception ends
\* the invocation
NotifyDoneAborts(c, resp) ==
    /\ process = "running"
    /\ cycle[c].pc = "notify"
    /\ IF resp = "error"
       THEN /\ cycle' = [cycle EXCEPT ![c] = IdleCycle]
            /\ UNCHANGED <<liveStatus, lastKickRequest, kickRecorded, kickDispatch,
                           pollResolves>>
       ELSE /\ liveStatus' = MapSet(liveStatus, cycle[c].entry.key, TRUE)
            /\ LoopHead(c, cycle[c].pos)
    /\ lastEval' = PostEnded(cycle[c].entry.key, resp)
    /\ UNCHANGED <<finishFrame, lastObs, edgeSent, checkFrame>>

\* NotifyDone with the state recorded under the username instead of the key
NotifyDoneUnderUsername(c, resp) ==
    /\ process = "running"
    /\ cycle[c].pc = "notify"
    /\ liveStatus' = MapSet(liveStatus, cycle[c].entry.user.username, TRUE)
    /\ LoopHead(c, cycle[c].pos)
    /\ lastEval' = PostEnded(cycle[c].entry.key, resp)
    /\ UNCHANGED <<finishFrame, lastObs, edgeSent, checkFrame>>

\* The webhook post ends (its failure is caught and logged inside
\* sendLiveNotification): the key is recorded live and the loop goes on.
NotifyDone(c, resp) ==
    /\ process = "running"
    /\ cycle[c].pc = "notify"
    /\ liveStatus' = MapSet(liveStatus, cycle[c].entry.key, TRUE)
    /\ LoopHead(c, cycle[c].pos)
    /\ lastEval' = PostEnded(cycle[c].entry.key, resp)
    /\ UNCHANGED <<finishFrame, lastObs, edgeSent, checkFrame>>

\* Date.now() moves on
Advance ==
    /\ now + TimeStep <= MaxTime
    /\ now' = now + TimeStep
    /\ UNCHANGED <<CONFIG, monitoredUsers, liveStatus, twitchToken, checkInterval,
                   process, lastKickRequest, cycle, track, histVars>>

\* ------------------------------------------------------------ Kick actions

\* kickAfterApi with the fallback taken after every failure of the request
kickAfterApiAnyFailure(r) ==
    IF r.threw THEN "fallback" ELSE IF Truthy(r.value) THEN "return" ELSE "fallback"

\* checkKickLive after tryKickAPI: an exception goes to the catch block
\* ("caught": return false), a truthy value is returned ("return"), anything
\* falsy goes on to tryKickWebScraping ("fallback").
kickAfterApi(r) ==
    IF r.threw THEN "caught" ELSE IF Truthy(r.value) THEN "return" ELSE "fallback"

KickDoneRecord(api, scrapes, scraped, result) ==
    [api |-> api, scrapes |-> scrapes, scraped |-> scraped,
     threw |-> result.threw, value |-> result.value]

\* The pacing timer of checkKickLive fires: the gate is passed
KickWake(c) ==
    /\ process = "running"
    /\ cycle[c].pc = "kickWait"
    /\ now >= cycle[c].wake
    /\ PassKickGate(c, cycle[c])
    /\ UNCHANGED <<CONFIG, monitoredUsers, liveStatus, twitchToken, checkInterval,
                   process, now, track, lastEval, lastObs, edgeSent, pollResolves,
                   checkFrame, sched, notice>>

\* The channel-info request ends: checkKickLive returns, or fetches the page
KickApiDone(c, resp) ==
    /\ process = "running"
    /\ cycle[c].pc = "kickApi"
    /\ LET next == kickAfterApi(tryKickAPI(resp))
       IN IF next = "fallback"
          THEN /\ cycle' = [cycle EXCEPT ![c].pc = "kickScrape", ![c].api = resp,
                                         ![c].scrapes = @ + 1]
               /\ kickDispatch' = Push(kickDispatch, now)
               /\ UNCHANGED <<liveStatus, lastKickRequest, kickRecorded, pollResolves,
                              lastEval, lastObs, edgeSent, kickDone>>
          ELSE /\ kickDone' = KickDoneRecord(resp, cycle[c].scrapes, FALSE,
                                             Returns(next = "return"))
               /\ Finish(c, Returns(next = "return"))
    /\ UNCHANGED <<finishFrame, ytDone, tiktokDone, twitchDone>>

\* The channel-page fetch ends: checkKickLive returns what the scraping says
KickScrapeDone(c, resp) ==
    /\ process = "running"
    /\ cycle[c].pc = "kickScrape"
    /\ kickDone' = KickDoneRecord(cycle[c].api, cycle[c].scrapes,
                                  tryKickWebScraping(resp),
                                  Returns(tryKickWebScraping(resp)))
    /\ Finish(c, Returns(tryKickWebScraping(resp)))
    /\ UNCHANGED <<finishFrame, ytDone, tiktokDone, twitchDone>>

\* --------------------------------------------------------- YouTube actions

YtDoneRecord(rec, resolved, result) ==
    [username |-> rec.entry.user.username, resolves |-> rec.resolves,
     resolved |-> resolved, searches |-> rec.searches,
     threw |-> result.threw, value |-> result.value]

\* checkYouTubeLive after resolveYouTubeChannel returned: the live-event
\* search with the channel ID, or false when there is none.
YtAfterResolve(c, outcome) ==
    IF outcome = "id"
    THEN /\ cycle' = [cycle EXCEPT ![c].pc = "ytLive", ![c].resolved = "id",
                                   ![c].searches = @ + 1]
         /\ UNCHANGED <<liveStatus, lastKickRequest, kickRecorded, kickDispatch,
                        pollResolves, lastEval, lastObs, edgeSent, ytDone>>
    ELSE /\ ytDone' = YtDoneRecord(cycle[c], "null", Returns(FALSE))
         /\ Finish(c, Returns(FALSE))

\* The channel search of resolveYouTubeChannel ends
YtResolveSearchDone(c, r) ==
    /\ process = "running"
    /\ cycle[c].pc = "ytResolveSearch"
    /\ IF resolveAfterSearch(r) = "next"
       THEN /\ cycle' = [cycle EXCEPT ![c].pc = "ytResolveChannels"]
            /\ UNCHANGED <<liveStatus, lastKickRequest, kickRecorded, kickDispatch,
                           pollResolves, lastEval, lastObs, edgeSent, ytDone>>
       ELSE YtAfterResolve(c, resolveAfterSearch(r))
    /\ UNCHANGED <<finishFrame, kickDone, tiktokDone, twitchDone>>

\* The forUsername lookup of resolveYouTubeChannel ends
YtResolveChannelsDone(c, r) ==
    /\ process = "running"
    /\ cycle[c].pc = "ytResolveChannels"
    /\ YtAfterResolve(c, resolveAfterChannels(r))
    /\ UNCHANGED <<finishFrame, kickDone, tiktokDone, twitchDone>>

\* The live-event search ends: checkYouTubeLive returns
YtLiveDone(c, r) ==
    /\ process = "running"
    /\ cycle[c].pc = "ytLive"
    /\ ytDone' = YtDoneRecord(cycle[c], cycle[c].resolved, Returns(youTubeLiveResult(r)))
    /\ Finish(c, Returns(youTubeLiveResult(r)))
    /\ UNCHANGED <<finishFrame, kickDone, tiktokDone, twitchDone>>

\* ---------------------------------------------------------- Twitch actions

NoTwitchDone ==
    [slot |-> "null", grant |-> "none", bearer |-> "", status |-> -1, data |-> 0,
     threw |-> FALSE, value |-> FALSE]

\* The grant request of getTwitchToken ends; checkTwitchLive goes on to the
\* streams lookup with `Bearer ${this.twitchToken}`
TwitchGrantDone(c, resp) ==
    /\ process = "running"
    /\ cycle[c].pc = "twitchGrant"
    /\ twitchToken' = getTwitchToken(resp)
    /\ cycle' = [cycle EXCEPT ![c].pc = "twitchStreams",
                              ![c].grant = IF Rejected(resp) THEN "failed" ELSE "ok",
                              ![c].bearer = twitchToken']
    /\ UNCHANGED <<CONFIG, monitoredUsers, liveStatus, checkInterval, process,
                   lastKickRequest, now, track, histVars>>

\* The streams lookup ends: checkTwitchLive returns
TwitchStreamsDone(c, resp) ==
    /\ process = "running"
    /\ cycle[c].pc = "twitchStreams"
    /\ twitchDone' = [slot |-> cycle[c].slot, grant |-> cycle[c].grant,
                      bearer |-> cycle[c].bearer, status |-> resp.status,
                      data |-> resp.data,
                      threw |-> checkTwitchLive(resp).threw,
                      value |-> checkTwitchLive(resp).value]
    /\ Finish(c, checkTwitchLive(resp))
    /\ UNCHANGED <<finishFrame, kickDone, ytDone, tiktokDone>>

\* ---------------------------------------------------------------- commands

\* monitoredUsers.set(key, user): a new key goes to the end, a key already
\* there keeps its place.
SetUser(e) ==
    IF Tracked(e.key)
    THEN [monitoredUsers EXCEPT ![IndexOfKey(e.key)] = e]
    ELSE Append(monitoredUsers, e)

\* handleTrackCommand from validateUser's answer on: the entry is stored. The
\* key's histories start afresh with the new entry.
StoreUser(user, resolvedId) ==
    LET e == Entry([user EXCEPT !.resolvedId = resolvedId])
    IN /\ Len(monitoredUsers) < MaxUsers \/ Tracked(e.key)
       /\ monitoredUsers' = SetUser(e)
       /\ cycle' = [c \in Slots |->
                       IF cycle[c].pc # "idle" /\ ~Tracked(e.key)
                       THEN [cycle[c] EXCEPT !.seen = MapSet(@, e.key, 0)]
                       ELSE cycle[c]]
       /\ lastObs' = MapDelete(lastObs, e.key)
       /\ edgeSent' = MapDelete(edgeSent, e.key)
       /\ pollResolves' = pollResolves \ {e.key}

trackFrame == <<CONFIG, liveStatus, twitchToken, checkInterval, process,
                lastKickRequest, now, lastEval, kickDone, kickDispatch,
                kickRecorded, ytDone, tiktokDone, twitchDone, sched, notice>>

\* handleTrackCommand up to its first pending request. A key already tracked
\* is answered and nothing changes; TikTok and Kick users are stored at once;
\* a YouTube user is validated first (validateYouTubeUser).
handleTrackCommand(t, user) ==
    /\ process = "running"
    /\ track[t].pc = "idle"
    /\ ~Tracked(KeyOf(user.platform, user.username))
    /\ Len(monitoredUsers) < MaxUsers
    /\ CASE user.platform \in {"tiktok", "kick"} ->
              /\ StoreUser(user, <<>>)
              /\ UNCHANGED track
         [] user.platform = "youtube" /\ CONFIG.YOUTUBE_API_KEY
                                      /\ startsWith(user.username, UC) ->
              /\ StoreUser(user, user.username)
              /\ UNCHANGED track
         [] user.platform = "youtube" /\ CONFIG.YOUTUBE_API_KEY
                                      /\ ~startsWith(user.username, UC) ->
              /\ track' = [track EXCEPT ![t] = [pc |-> "resolveSearch", user |-> user]]
              /\ UNCHANGED <<monitoredUsers, cycle, lastObs, edgeSent, pollResolves>>
         [] OTHER ->
              UNCHANGED <<track, monitoredUsers, cycle, lastObs, edgeSent, pollResolves>>
    /\ UNCHANGED trackFrame

\* validateYouTubeUser after resolveYouTubeChannel returned
TrackAfterResolve(t, outcome) ==
    IF outcome = "id"
    THEN /\ StoreUser(track[t].user, ResolvedIdOf(track[t].user.username))
         /\ track' = [track EXCEPT ![t] = NoTrack]
    ELSE /\ track' = [track EXCEPT ![t] = NoTrack]
         /\ UNCHANGED <<monitoredUsers, cycle, lastObs, edgeSent, pollResolves>>

\* The channel search made for validateYouTubeUser ends
TrackResolveSearchDone(t, r) ==
    /\ process = "running"
    /\ track[t].pc = "resolveSearch"
    /\ IF resolveAfterSearch(r) = "next"
       THEN /\ track' = [track EXCEPT ![t].pc = "resolveChannels"]
            /\ UNCHANGED <<monitoredUsers, cycle, lastObs, edgeSent, pollResolves>>
       ELSE TrackAfterResolve(t, resolveAfterSearch(r))
    /\ UNCHANGED trackFrame

\* The forUsername lookup made for validateYouTubeUser ends
TrackResolveChannelsDone(t, r) ==
    /\ process = "running"
    /\ track[t].pc = "resolveChannels"
    /\ TrackAfterResolve(t, resolveAfterChannels(r))
    /\ UNCHANGED trackFrame

\* handleRemoveCommand for a tracked key: both Maps drop the key. Iterators
\* of the Map that are past the entry stay on the entry they were on.
handleRemoveCommand(key) ==
    /\ process = "running"
    /\ Tracked(key)
    /\ monitoredUsers' = RemoveAt(monitoredUsers, IndexOfKey(key))
    /\ liveStatus' = MapDelete(liveStatus, key)
    /\ cycle' = [c \in Slots |->
                    IF cycle[c].pc # "idle" /\ IndexOfKey(key) <= cycle[c].pos
                    THEN [cycle[c] EXCEPT !.pos = @ - 1, !.seen = MapDelete(@, key)]
                    ELSE [cycle[c] EXCEPT !.seen = MapDelete(@, key)]]
    /\ UNCHANGED <<CONFIG, twitchToken, checkInterval, process, lastKickRequest, now,
                   track, histVars>>

\* ------------------------------------------------------------ notification

\* sendLiveNotification(user) up to its post, for a user given to it directly
BuildEmbed ==
    /\ process = "running"
    /\ notice.embed = NoEmbed
    /\ notice' = [notice EXCEPT !.embed = Embed(notice.user)]
    /\ UNCHANGED <<progVars, lastEval, lastObs, edgeSent, kickDone, kickDispatch,
                   kickRecorded, ytDone, pollResolves, tiktokDone, twitchDone, sched>>

\* ---------------------------------------------------------------- shutdown

\* stop(): the timer is cleared if there is one (the field keeps the Timeout
\* object). client.destroy() has no effect on the state modelled here.
stop ==
    checkInterval' = IF checkInterval # "null" THEN "cleared" ELSE checkInterval

\* The SIGINT / SIGTERM handler: stop(), then process.exit(0). Whatever was
\* awaiting a response is never resumed.
Shutdown ==
    /\ process = "running"
    /\ stop
    /\ process' = "exited"
    /\ UNCHANGED <<CONFIG, monitoredUsers, liveStatus, twitchToken, lastKickRequest,
                   now, cycle, track, histVars>>

\* ------------------------------------------------------------------- Init

TikTokUsers == {User("tiktok", <<"a">>), User("tiktok", <<"b">>)}

KickUsers == {User("kick", <<"a">>), User("kick", <<"b">>)}

YouTubeUsers == {User("youtube", <<"h">>), User("youtube", <<"U", "C", "x">>)}

TwitchUsers == {User("twitch", <<"a">>), User("twitch", <<"b">>)}

\* The entry handleTrackCommand stores for a user
StoredEntry(user) ==
    Entry([user EXCEPT !.resolvedId =
              IF user.platform # "youtube" THEN <<>>
              ELSE IF startsWith(user.username, UC) THEN user.username
              ELSE ResolvedIdOf(user.username)])

\* The lists loadMonitoredUsers may find in the data file: no file, or the
\* entries stored earlier for some of the users, each key once.
StoredLists(users) ==
    { s \in UNION { [1..n -> {StoredEntry(u) : u \in users}] : n \in 0..MaxUsers } :
        \A i, j \in 1..Len(s) : i # j => s[i].key # s[j].key }

\* The state after construction and init(), for the users and the
\* credential settings of an environment
InitProgram(users, configs) ==
    /\ CONFIG \in configs
    /\ monitoredUsers \in StoredLists(users)
    /\ liveStatus = EmptyMap
    /\ twitchToken = "null"
    /\ checkInterval = "null"
    /\ process = "running"
    /\ lastKickRequest = 0
    /\ now = kickRequestDelay
    /\ cycle = [c \in Slots |-> IdleCycle]
    /\ track = [t \in TrackSlots |-> NoTrack]
    /\ lastEval = [key |-> <<>>, prior |-> "none", observed |-> FALSE, handed |-> FALSE,
                   after |-> "none", changed |-> FALSE, failed |-> FALSE]
    /\ lastObs = EmptyMap
    /\ edgeSent = EmptyMap
    /\ kickDone = KickDoneRecord(NoResp, 0, FALSE, Returns(FALSE))
    /\ kickDispatch = NoTimes
    /\ kickRecorded = NoTimes
    /\ ytDone = [username |-> <<>>, resolves |-> 0, resolved |-> "none", searches |-> 0,
                 threw |-> FALSE, value |-> FALSE]
    /\ pollResolves = {}
    /\ tiktokDone = [resp |-> NoPage, rejected |-> FALSE, diagnostic |-> "",
                     threw |-> FALSE, value |-> FALSE]
    /\ twitchDone = NoTwitchDone
    /\ sched = [timers |-> 0, first |-> "none", again |-> FALSE]

\* The state after construction and init(); sendLiveNotification has not been
\* called
InitOver(users, configs) ==
    /\ InitProgram(users, configs)
    /\ notice = NoNotice

\* The optional credentials: with or without the YouTube API key
Configs ==
    [YOUTUBE_API_KEY : BOOLEAN, TWITCH_CLIENT_ID : {TRUE}, TWITCH_CLIENT_SECRET : {TRUE}]

\* with or without the Twitch client id and secret
TwitchConfigs ==
    [YOUTUBE_API_KEY : {TRUE}, TWITCH_CLIENT_ID : BOOLEAN, TWITCH_CLIENT_SECRET : BOOLEAN]

\* ------------------------------------------------------- the specifications
\* One program, several environments: each specification is the program in an
\* environment whose users (in the data file and in the commands) are those of
\* some platforms, with the actions that can occur there.

TimerStep == \E c \in Slots : TimerTick(c)

NotifyStep == \E c \in Slots, resp \in WebhookResponses : NotifyDone(c, resp)

TikTokStep ==
    \E c \in Slots :
        \E resp \in TikTokResponses(cycle[c].entry.user.username) : TikTokFetchDone(c, resp)

TikTokAnswerStep ==
    \E c \in Slots :
        \E resp \in TikTokAnswers(cycle[c].entry.user.username) : TikTokFetchDone(c, resp)

KickStep ==
    \/ \E c \in Slots : KickWake(c)
    \/ \E c \in Slots, resp \in KickApiResponses : KickApiDone(c, resp)
    \/ \E c \in Slots, resp \in KickPageResponses : KickScrapeDone(c, resp)

YouTubeStep ==
    \/ \E c \in Slots : ReturnedFalse(c)
    \/ \E c \in Slots, r \in YouTubeResponses : YtResolveSearchDone(c, r)
    \/ \E c \in Slots, r \in YouTubeResponses : YtResolveChannelsDone(c, r)
    \/ \E c \in Slots, r \in YouTubeResponses : YtLiveDone(c, r)

YouTubeTrackStep ==
    \/ \E r \in YouTubeResponses : TrackResolveSearchDone(1, r)
    \/ \E r \in YouTubeResponses : TrackResolveChannelsDone(1, r)

Commands(users) ==
    \/ \E u \in users : handleTrackCommand(1, u)
    \/ \E u \in users : handleRemoveCommand(KeyOf(u.platform, u.username))

Configured ==
    [YOUTUBE_API_KEY |-> TRUE, TWITCH_CLIENT_ID |-> TRUE, TWITCH_CLIENT_SECRET |-> TRUE]

\* Scheduler, live-status map and commands, with users on TikTok
Init == InitOver(TikTokUsers, {Configured})

Next ==
    \/ StartMonitoring
    \/ TimerStep
    \/ NotifyStep
    \/ TikTokAnswerStep
    \/ Commands(TikTokUsers)

Spec == Init /\ [][Next]_vars

\* The same with check cycles one after another: a tick finds no cycle in
\* flight, so that the first slot holds every cycle
NextSeq ==
    \/ StartMonitoring
    \/ TimerTick(1)
    \/ \E resp \in WebhookResponses : NotifyDone(1, resp)
    \/ \E resp \in TikTokAnswers(cycle[1].entry.user.username) :
           TikTokFetchDone(1, resp)
    \/ Commands(TikTokUsers)

SpecSeq == Init /\ [][NextSeq]_vars

\* The same under fair scheduling: the ready event is delivered, the interval
\* timer keeps firing, and every webhook post and page fetch that is pending
\* gets its answer or its failure. The commands are the users' to give or not.
FairLive ==
    /\ WF_vars(StartMonitoring)
    /\ WF_vars(TimerTick(1))
    /\ WF_vars(\E resp \in WebhookResponses : NotifyDone(1, resp))
    /\ WF_vars(\E resp \in TikTokAnswers(cycle[1].entry.user.username) :
                   TikTokFetchDone(1, resp))

SpecLive == Init /\ [][NextSeq]_vars /\ FairLive

\* From the restart to the end of the call of checkAllStreams that
\* startMonitoring makes itself: the timer does not fire
NextFirst ==
    \/ StartMonitoring
    \/ \E resp \in WebhookResponses : NotifyDone(1, resp)
    \/ \E resp \in TikTokResponses(cycle[1].entry.user.username) :
           TikTokFetchDone(1, resp)
    \/ Commands(TikTokUsers)

SpecFirst == Init /\ [][NextFirst]_vars

\* The list as loaded, with a termination signal at any moment
NextStop ==
    \/ StartMonitoring
    \/ TimerStep
    \/ NotifyStep
    \/ TikTokAnswerStep
    \/ Shutdown

SpecStop == Init /\ [][NextStop]_vars

\* The TikTok checker with every outcome of its fetch, the list as loaded
InitTikTok == InitOver(TikTokUsers, {Configured})

NextTikTok ==
    \/ StartMonitoring
    \/ TimerStep
    \/ NotifyStep
    \/ TikTokStep

SpecTikTok == InitTikTok /\ [][NextTikTok]_vars

\* The same with users on Kick, where the clock matters
InitKick == InitOver(KickUsers, {Configured})

NextKick ==
    \/ StartMonitoring
    \/ TimerStep
    \/ NotifyStep
    \/ KickStep
    \/ Advance

SpecKick == InitKick /\ [][NextKick]_vars

\* The same with users on YouTube, with and without an API key
InitYouTube == InitOver(YouTubeUsers, Configs)

NextYouTube ==
    \/ StartMonitoring
    \/ TimerStep
    \/ NotifyStep
    \/ YouTubeStep
    \/ Commands(YouTubeUsers)
    \/ YouTubeTrackStep

SpecYouTube == InitYouTube /\ [][NextYouTube]_vars

\* The same with users on Twitch, with and without the client credentials,
\* check cycles one after another
InitTwitch == InitOver(TwitchUsers, TwitchConfigs)

NextTwitch ==
    \/ StartMonitoring
    \/ TimerTick(1)
    \/ \E resp \in WebhookResponses : NotifyDone(1, resp)
    \/ \E resp \in TwitchGrantResponses : TwitchGrantDone(1, resp)
    \/ \E resp \in TwitchStreamsResponses : TwitchStreamsDone(1, resp)

SpecTwitch == InitTwitch /\ [][NextTwitch]_vars

\* The command handlers alone, with track commands for one YouTube handle
\* under two display names (and for another handle and a channel ID)
\* overlapping
TrackUsers ==
    {User("youtube", <<"h">>),
     [User("youtube", <<"h">>) EXCEPT !.displayName = <<"D">>],
     User("youtube", <<"g">>),
     User("youtube", <<"U", "C", "x">>)}

InitTrack == InitOver(TrackUsers, {Configured})

NextTrack ==
    \/ \E t \in TrackSlots, u \in TrackUsers : handleTrackCommand(t, u)
    \/ \E t \in TrackSlots, r \in YouTubeResponses : TrackResolveSearchDone(t, r)
    \/ \E t \in TrackSlots, r \in YouTubeResponses : TrackResolveChannelsDone(t, r)
    \/ \E u \in TrackUsers : handleRemoveCommand(KeyOf(u.platform, u.username))

SpecTrack == InitTrack /\ [][NextTrack]_vars

\* sendLiveNotification as a function of its argument: users of the four
\* platforms and of one the bot does not know, with every username of up to
\* MaxName characters (channel IDs among them) and a display name that is the
\* username or another text.
MaxName == 3

Names == UNION {[1..n -> {"a", "U", "C"}] : n \in 1..MaxName}

NoticeUsers ==
    UNION {{User(p, n), [User(p, n) EXCEPT !.displayName = <<"D">>]} :
              p \in {"youtube", "twitch", "tiktok", "kick", "other"}, n \in Names}

InitNotice ==
    /\ InitProgram({}, {Configured})
    /\ notice \in {[user |-> u, embed |-> NoEmbed] : u \in NoticeUsers}

NextNotice == BuildEmbed

SpecNotice == InitNotice /\ [][NextNotice]_vars

\* ------------------------------------------------------------------ claims

\* C1: with the evaluations of a key made one after another, an evaluation
\* hands a notification to sendLiveNotification exactly when the state
\* recorded for the key just before the comparison was false or absent and the
\* observed value is true; so further live observations after a transition
\* send nothing until a not-live observation comes in between.
C1_EdgeTriggered ==
    /\ lastEval.prior # "none" =>
          (lastEval.handed <=> (lastEval.observed /\ lastEval.prior # "true"))
    /\ \A i \in 1..Len(monitoredUsers) :
          MapHas(edgeSent, monitoredUsers[i].key) => edgeSent[monitoredUsers[i].key] <= 1

\* a live observation of a key recorded live, after its one notification
C1_Witness ==
    /\ lastEval.prior = "true"
    /\ lastEval.observed
    /\ ~lastEval.handed
    /\ MapHas(edgeSent, lastEval.key)
    /\ edgeSent[lastEval.key] = 1

\* C2: whatever the interleaving of check cycles, an offline-to-live edge of a
\* tracked account is notified once, and an account that stays live is not
\* notified a second time.
C2_OncePerEdge ==
    \A k \in DOMAIN edgeSent : Tracked(k) => edgeSent[k] <= 1

\* C3: a key that is not tracked has no entry in liveStatus, whatever the
\* interleaving of its removal with a check cycle.
C3_RemovedKeyHasNoState ==
    \A k \in DOMAIN liveStatus : Tracked(k)


\* C4: in checkKickLive a 403 answer to the channel-info request leads to one
\* call of tryKickWebScraping, whose result is returned; any other failure of
\* that request leads to no such call and to false; neither throws.
C4_FallbackOn403Only ==
    /\ kickDone.api.status = 403 =>
          /\ kickDone.scrapes = 1
          /\ kickDone.value = kickDone.scraped
          /\ ~kickDone.threw
    /\ (kickDone.api.status # -1 /\ Rejected(kickDone.api) /\ kickDone.api.status # 403) =>
          /\ kickDone.scrapes = 0
          /\ ~kickDone.value
          /\ ~kickDone.threw
    /\ \A c \in Slots :
          /\ cycle[c].scrapes <= 1
          /\ cycle[c].pc = "kickScrape" => cycle[c].scrapes = 1

\* a 403 from the API, then a page that says live
C4_Witness ==
    /\ kickDone.api.status = 403
    /\ kickDone.scrapes = 1
    /\ kickDone.value

\* C5: when the channel-info request succeeds, checkKickLive returns whether
\* the livestream field is non-null and tryKickWebScraping is not called.
C5_ConclusiveApiAnswer ==
    (kickDone.api.status # -1 /\ ~Rejected(kickDone.api)) =>
        /\ kickDone.scrapes = 0
        /\ kickDone.value = (kickDone.api.livestream # "null")

\* C6: two successive outbound Kick requests, of either kind, are dispatched
\* at least kickRequestDelay apart.
C6_RequestSpacing ==
    kickDispatch.prev # -1 => kickDispatch.last - kickDispatch.prev >= kickRequestDelay

\* C7: checkKickLive calls in progress at the same time pass the pacing gate
\* one at a time: two successive values stored in lastKickRequest are at
\* least kickRequestDelay apart.
C7_GateSerializes ==
    kickRecorded.prev # -1 => kickRecorded.last - kickRecorded.prev >= kickRequestDelay


\* What C8 asks of one checkYouTubeLive call, in flight or finished, for the
\* input it was given
ResolvedBeforeSearch(username, resolves, resolved, searches) ==
    IF startsWith(username, UC)
    THEN resolves = 0
    ELSE /\ searches > 0 => (resolves = 1 /\ resolved = "id")
         /\ resolved \in {"pending", "null"} => searches = 0

\* C8: checkYouTubeLive issues a live-event search for an input without the
\* UC prefix only after resolveYouTubeChannel has returned a channel ID, and
\* none when it returned nothing; for an input with the prefix
\* resolveYouTubeChannel is not called.
C8_ResolveBeforeSearch ==
    /\ \A c \in Slots :
          cycle[c].entry.user.platform = "youtube" =>
              ResolvedBeforeSearch(cycle[c].entry.user.username, cycle[c].resolves,
                                   cycle[c].resolved, cycle[c].searches)
    /\ ResolvedBeforeSearch(ytDone.username, ytDone.resolves, ytDone.resolved,
                            ytDone.searches)

\* a handle that was resolved and then searched; a handle that was not found;
\* a channel ID searched at once
C8_Witness ==
    /\ ~startsWith(ytDone.username, UC)
    /\ ytDone.resolved = "id"
    /\ ytDone.searches = 1
    /\ \E c \in Slots :
          /\ cycle[c].pc = "ytLive"
          /\ startsWith(cycle[c].entry.user.username, UC)

\* C9: a YouTube account tracked by a handle has its channel resolved when it
\* is created, and check cycles request no resolution for it afterwards.
C9_ResolvedOnce ==
    \A i \in 1..Len(monitoredUsers) :
        LET e == monitoredUsers[i]
        IN (e.user.platform = "youtube" /\ ~startsWith(e.user.username, UC)
                /\ e.user.resolvedId # <<>>)
           => e.key \notin pollResolves

C11_EveryAccountOnce ==
    /\ [](\A c \in Slots :
            cycle[c].pc # "idle" =>
                \A i \in 1..Len(monitoredUsers) :
                    /\ MapHas(cycle[c].seen, monitoredUsers[i].key)
                    /\ cycle[c].seen[monitoredUsers[i].key] =
                           (IF i <= cycle[c].pos THEN 1 ELSE 0))
    /\ [][\A c \in Slots :
            (cycle[c].pc # "idle" /\ cycle'[c].pc = "idle") =>
                cycle[c].pos = Len(monitoredUsers)]_vars

\* the first account's fetch was blocked, and the cycle is at the second one
C11_Witness ==
    /\ Len(monitoredUsers) = 2
    /\ cycle[1].pc = "tiktokFetch"
    /\ cycle[1].pos = 2
    /\ cycle[2].pc = "idle"
    /\ tiktokDone.rejected
    /\ lastEval.key = monitoredUsers[1].key

\* C12 as claimed: no evaluation of the first check cycle after a restart
\* hands over a notification.
C12_FirstCycleOnlyRecords ==
    lastEval.prior # "none" => ~lastEval.handed

\* C12 as amended: in the first check cycle after a restart an account
\* observed live while liveStatus has no entry for it is notified (an absent
\* entry counts as offline); before any evaluation liveStatus is empty.
C12_FirstCycleNotifies ==
    /\ lastEval.prior = "none" => liveStatus = EmptyMap
    /\ (lastEval.prior = "absent" /\ lastEval.observed) => lastEval.handed

\* the first evaluation after the restart found the account live
C12_Witness ==
    /\ lastEval.prior = "absent"
    /\ lastEval.observed
    /\ lastEval.handed
    /\ cycle[1].pc = "notify"
    /\ liveStatus = EmptyMap

\* C13: startMonitoring runs once; it begins the first check cycle itself,
\* before any tick, and arms one timer; every other cycle begins on a tick.
C13_StartOnce ==
    /\ sched.timers <= 1
    /\ ~sched.again
    /\ checkInterval = "null" =>
          /\ sched.timers = 0
          /\ sched.first = "none"
          /\ \A c \in Slots : cycle[c].pc = "idle"
    /\ checkInterval # "null" =>
          /\ sched.timers = 1
          /\ sched.first = "start"

\* a tick has begun a second cycle while the first is in flight
C13_Witness ==
    /\ sched.first = "start"
    /\ sched.timers = 1
    /\ cycle[1].pc # "idle"
    /\ cycle[2].pc # "idle"

\* C14: once stop() has run the timer begins no check cycle, and a cycle in
\* flight when it ran is not cut short: it is still there to go on.
C14_StopLeavesCycleRunning ==
    [][/\ checkInterval = "cleared" =>
             \A c \in Slots : cycle[c].pc = "idle" => cycle'[c].pc = "idle"
       /\ checkInterval' = "cleared" =>
             \A c \in Slots : cycle'[c].pc # "idle" => process' = "running"]_vars

\* C15: a token the platform has answered 401 to is dropped: unless a grant
\* has succeeded since, the slot is empty and the next check requests a grant.
C15_RejectedTokenIsDropped ==
    (twitchDone.status = 401 /\ twitchDone.bearer # "null") =>
        \A c \in Slots :
            /\ cycle[c].grant # "ok" => twitchToken = "null"
            /\ cycle[c].pc \in {"twitchGrant", "twitchStreams"} => cycle[c].grant # "none"

\* What C16 asks of one checkTwitchLive call: a grant exactly when it found
\* the slot empty, and the cached token sent otherwise
GrantOnlyWhenEmpty(slot, grant, bearer) ==
    /\ grant # "none" <=> slot = "null"
    /\ (slot # "null" /\ bearer # "") => bearer = slot

\* C16: with the checks one after another, checkTwitchLive requests a grant
\* only when the token slot is empty; after a grant that succeeded the checks
\* send the cached token and request none.
C16_GrantOnlyWhenEmpty ==
    /\ \A c \in Slots :
          cycle[c].pc \in {"twitchGrant", "twitchStreams"} =>
              /\ GrantOnlyWhenEmpty(cycle[c].slot, cycle[c].grant, cycle[c].bearer)
              /\ twitchDone.grant = "ok" =>
                    (cycle[c].grant = "none" /\ cycle[c].slot = twitchToken)
    /\ twitchDone.status # -1 =>
          GrantOnlyWhenEmpty(twitchDone.slot, twitchDone.grant, twitchDone.bearer)

\* a check that found the token of an earlier grant and reported live with it
C16_Witness ==
    /\ twitchDone.slot = "token"
    /\ twitchDone.grant = "none"
    /\ twitchDone.bearer = "token"
    /\ twitchDone.value

\* C17: a failed grant leaves twitchToken empty; the check after it requests
\* the grant again, and when that grant succeeds the token is stored, sent
\* with the streams lookup, and the check returns what the lookup says.
C17_FailedGrantRetried ==
    /\ \A c \in Slots :
          /\ cycle[c].grant = "failed" => twitchToken = "null"
          /\ (twitchDone.grant = "failed"
                  /\ cycle[c].pc \in {"twitchGrant", "twitchStreams"}) =>
                (cycle[c].slot = "null" /\ cycle[c].grant # "none")
          /\ cycle[c].grant = "ok" =>
                (twitchToken = "token" /\ cycle[c].bearer = "token")
    /\ (twitchDone.grant = "ok" /\ twitchDone.status = 200) =>
          (twitchDone.value <=> twitchDone.data > 0)

\* the check after a failed grant has obtained a token
C17_Witness ==
    /\ twitchDone.grant = "failed"
    /\ cycle[1].pc = "twitchStreams"
    /\ cycle[1].grant = "ok"
    /\ twitchToken = "token"

\* C18: a check whose grant failed returns not-live without sending the
\* streams lookup.
C18_GrantFailureSurfaced ==
    /\ \A c \in Slots : cycle[c].grant = "failed" => cycle[c].pc # "twitchStreams"
    /\ twitchDone.grant = "failed" => (twitchDone.status = -1 /\ ~twitchDone.value)

\* C19: without its credentials a checker returns false and does not throw,
\* whatever the platform answers: checkYouTubeLive without the API key,
\* checkTwitchLive without the client id or the client secret.
C19_NoCredentialsNotLive ==
    /\ ~CONFIG.YOUTUBE_API_KEY => (~ytDone.value /\ ~ytDone.threw)
    /\ ~(CONFIG.TWITCH_CLIENT_ID /\ CONFIG.TWITCH_CLIENT_SECRET) =>
          (~twitchDone.value /\ ~twitchDone.threw)

\* C20: for a page that was fetched, checkTikTokLive returns false when the
\* URL the redirects ended at does not contain /live, whatever the
\* indicators; when it does, it returns whether some indicator holds.
C20_RedirectMeansNotLive ==
    (tiktokDone.resp.status # -1 /\ ~tiktokDone.rejected) =>
        LET url == tiktokDone.resp.responseUrl
        IN /\ (url # <<>> /\ ~includes(url, LivePath)) => ~tiktokDone.value
           /\ includes(url, LivePath) =>
                 (tiktokDone.value <=> Some(tiktokDone.resp.indicators))
           /\ ~tiktokDone.threw

\* a page with a live indicator, reached at the profile's URL
C20_Witness ==
    /\ tiktokDone.resp.status = 200
    /\ Some(tiktokDone.resp.indicators)
    /\ tiktokDone.resp.responseUrl # <<>>
    /\ ~includes(tiktokDone.resp.responseUrl, LivePath)
    /\ ~tiktokDone.value

\* C21: at most one check cycle is in progress at any time: no
\* checkAllStreams invocation is started while an earlier one has not ended.
C21_OneCycleAtATime ==
    Cardinality({c \in Slots : cycle[c].pc # "idle"}) <= 1

\* C22: at the moment sendLiveNotification is invoked for a key, liveStatus
\* already holds true for the key.
C22_RecordedBeforeHandOff ==
    [][\A c \in Slots :
          (cycle[c].pc # "notify" /\ cycle'[c].pc = "notify") =>
              (MapHas(liveStatus', cycle'[c].entry.key)
                  /\ liveStatus'[cycle'[c].entry.key])]_vars

\* C23: an evaluation that is not a transition (live with true recorded,
\* not live with false recorded, not live with nothing recorded) leaves
\* liveStatus as it was, an absent entry absent, and hands nothing over.
C23_NoTransitionNoChange ==
    ((lastEval.observed /\ lastEval.prior = "true")
        \/ (~lastEval.observed /\ lastEval.prior \in {"false", "absent"})) =>
    (~lastEval.changed /\ lastEval.after = lastEval.prior /\ ~lastEval.handed)

\* an account seen offline that had no entry: still none
C23_Witness ==
    /\ ~lastEval.observed
    /\ lastEval.prior = "absent"
    /\ lastEval.after = "absent"
    /\ ~MapHas(liveStatus, lastEval.key)
    /\ Tracked(lastEval.key)

\* C24: an observation of not-live for a key recorded true sets the
\* recorded state to false and hands nothing to the transport.
C24_OfflineRecorded ==
    (~lastEval.observed /\ lastEval.prior = "true") =>
        (lastEval.after = "false" /\ ~lastEval.handed)

\* a broadcast that ended
C24_Witness ==
    /\ ~lastEval.observed
    /\ lastEval.prior = "true"
    /\ MapHas(liveStatus, lastEval.key)
    /\ ~liveStatus[lastEval.key]

\* C25: within one invocation the check of the next account begins only
\* when the previous account is done with: not out of the pacing wait, out
\* of the channel-info request only when its answer ends checkKickLive
\* (no page fetch skipped), with the previous account's result evaluated
\* in that step and no notification handed over and left pending.
C25_OneAccountAtATime ==
    [][\A c \in Slots :
          cycle'[c].pos > cycle[c].pos =>
              /\ cycle[c].pc \in {"idle", "notify", "kickApi", "kickScrape"}
              /\ cycle[c].pc \in {"kickApi", "kickScrape"} =>
                     /\ kickDone'.threw \/ lastEval'.key = cycle[c].entry.key
                     /\ ~lastEval'.handed
              /\ cycle[c].pc = "kickApi" =>
                     /\ kickAfterApi(tryKickAPI(kickDone'.api)) # "fallback"
                     /\ kickDone'.scrapes = 0]_vars

\* the first account was notified after its check, and the invocation is
\* now at its second account
C25_Witness ==
    \E c \in Slots :
        /\ Len(monitoredUsers) = 2
        /\ cycle[c].pos = 2
        /\ cycle[c].pc \in {"kickWait", "kickApi"}
        /\ lastEval.key = monitoredUsers[1].key
        /\ lastEval.handed
        /\ MapHas(liveStatus, monitoredUsers[1].key)
        /\ liveStatus[monitoredUsers[1].key]

\* C26: when the webhook post of a transition fails, the key is recorded
\* live all the same, and an evaluation after the failure that finds the
\* account still live (its last observation was live too) hands nothing
\* over.
C26_FailedPostNotRetried ==
    [][/\ (~lastEval.failed /\ lastEval'.failed) =>
             (MapHas(liveStatus', lastEval.key) /\ liveStatus'[lastEval.key])
       /\ (lastEval.failed /\ lastEval' # lastEval
              /\ lastEval'.key = lastEval.key /\ lastEval'.observed
              /\ MapHas(lastObs, lastEval.key) /\ lastObs[lastEval.key]) =>
             ~lastEval'.handed]_vars

\* C27: a stored entry is never modified, only deleted: over any step, a key
\* that is tracked before and after has the same entry, also when two track
\* commands for the key are in progress at the same time.
C27_StoredEntryImmutable ==
    [][\A i \in 1..Len(monitoredUsers), j \in 1..Len(monitoredUsers') :
          monitoredUsers[i].key = monitoredUsers'[j].key =>
              monitoredUsers[i] = monitoredUsers'[j]]_vars

\* C28: every key of liveStatus was a key of monitoredUsers at some earlier
\* or the current moment: a key enters liveStatus only as the key of the
\* entry an invocation is on, and an invocation is only ever on an entry it
\* took from monitoredUsers.
C28_KeysWereTracked ==
    [][/\ \A k \in (DOMAIN liveStatus') \ (DOMAIN liveStatus) :
             \E c \in Slots : cycle[c].pc # "idle" /\ cycle[c].entry.key = k
       /\ \A c \in Slots :
             (cycle'[c].pc # "idle" /\ cycle'[c].entry # cycle[c].entry) =>
                 \E i \in 1..Len(monitoredUsers) : monitoredUsers[i] = cycle'[c].entry]_vars

\* a key recorded live that is no longer tracked
C28_Witness ==
    \E k \in DOMAIN liveStatus : liveStatus[k] /\ ~Tracked(k)

C30_HandOffOnlyForTracked ==
    [][\A c \in Slots :
          (cycle[c].pc # "notify" /\ cycle'[c].pc = "notify") =>
              \E i \in 1..Len(monitoredUsers') :
                  monitoredUsers'[i].key = cycle'[c].entry.key]_vars

\* the keys of the accounts the commands may name
LiveKeys == {KeyOf(u.platform, u.username) : u \in TikTokUsers}

\* the account stays tracked and its last check observed it live
StaysLive(k) == Tracked(k) /\ MapHas(lastObs, k) /\ lastObs[k]

\* the key is recorded live and a notification was handed over for the edge
NotifiedLive(k) ==
    /\ MapHas(liveStatus, k) /\ liveStatus[k]
    /\ MapHas(edgeSent, k) /\ edgeSent[k] >= 1

\* the users give finitely many commands
FinitelyManyCommands == <>[][~Commands(TikTokUsers)]_vars

\* C31: under fair scheduling of the timer and of the answers to the network
\* calls (and with finitely many commands given), every check cycle ends,
\* and an account that from some point on stays tracked and is observed live
\* in every check is, from some point on, recorded live with a notification
\* handed over for that edge.
C31_EventuallyNotified ==
    FinitelyManyCommands =>
        /\ (cycle[1].pc # "idle") ~> (cycle[1].pc = "idle")
        /\ \A k \in LiveKeys : (<>[]StaysLive(k)) => ([]<>NotifiedLive(k))

====
